---- MODULE Spec2Model ----
(***************************************************************************)
(* Polling application: the server actions of app/lib/actions/poll-actions *)
(* over a store of two tables, polls and votes, and the admin page that    *)
(* calls them from a browser.                                              *)
(*                                                                         *)
(* Strings are sequences of one-character strings.  A nullable value       *)
(* (`data` of a .single() query, `user` of getUser(), an optional email)   *)
(* is a set with at most one element: {} is null.  A nullable error is a   *)
(* string, Null when absent.                                               *)
(*                                                                         *)
(* The store answers every query (no transport failure); the errors it     *)
(* gives are those of .single() on a result that is not exactly one row    *)
(* and, when the votes table carries it, of the unique (poll_id, user_id)  *)
(* constraint.  Within one request getUser() gives the same answer each    *)
(* time it is called.                                                      *)
(***************************************************************************)
EXTENDS Integers, Sequences, FiniteSets

VARIABLES
    polls,        \* rows of table "polls"
    nextPollId,   \* the id (and created_at) the store gives the next poll
    votes,        \* rows of table "votes", in insertion order; a row's id is its position
    uniqueVotes,  \* whether table "votes" has a unique (poll_id, user_id) constraint
    reqs,         \* submitVote calls in flight, by request slot
    ret,          \* what the last completed call returned
    page          \* the admin page open in a browser: its React state and its calls in flight

vars == <<polls, nextPollId, votes, uniqueVotes, reqs, ret, page>>

\* ------------------------------------------------------------------ bounds
MaxPolls == 2
MaxVotes == 3
MaxReq == 2

\* --------------------------------------------------------- program constants
MaxQuestionLen == 500
MinOptions == 2
MaxOptions == 10
MaxOptionLen == 200

Null == "null"

\* error messages, as the code spells them
NotAuthenticated == "Not authenticated"
AdminRequired == "Admin access required"
InvalidQuestion == "Please provide a valid question."
QuestionTooLong == "Question must be 500 characters or less."
TooFewOptions == "Please provide at least two options."
TooManyOptions == "Maximum 10 options allowed."
TooFewValidOptions == "Please provide at least two valid options (max 200 characters each)."
DuplicateOptions == "Duplicate options are not allowed."
LoginToCreate == "You must be logged in to create a poll."
LoginToVote == "You must be logged in to vote."
LoginToDelete == "You must be logged in to delete a poll."
LoginToUpdate == "You must be logged in to update a poll."
AlreadyVoted == "You have already voted on this poll."
PollNotFound == "Poll not found."
InvalidOption == "Invalid option selected."

\* error messages of the collaborators, passed through as error.message
AuthErrorMessage == "Auth session missing!"
SingleRowMessage == "JSON object requested, multiple (or no) rows returned"
DuplicateKeyMessage == "duplicate key value violates unique constraint"

\* error message of the admin page
AccessDenied == "Access denied. Admin privileges required."

\* ------------------------------------------------------------------ strings
IsSpace(c) == c \in {" ", "\t", "\n"}

\* String.prototype.trimStart
RECURSIVE TrimStart(_)
TrimStart(s) ==
    IF s = <<>> \/ ~IsSpace(Head(s)) THEN s ELSE TrimStart(Tail(s))

\* String.prototype.trimEnd
RECURSIVE TrimEnd(_)
TrimEnd(s) ==
    IF s = <<>> \/ ~IsSpace(s[Len(s)]) THEN s ELSE TrimEnd(SubSeq(s, 1, Len(s) - 1))

\* String.prototype.trim
Trim(s) == TrimEnd(TrimStart(s))

\* String.prototype.includes
Includes(s, sub) ==
    \E i \in 1..(Len(s) - Len(sub) + 1) : SubSeq(s, i, i + Len(sub) - 1) = sub

\* formData.getAll("options") taken as it is, empty fields included
FilterBooleanKeepAll(xs) == xs

\* Array.prototype.filter(Boolean) on strings: the empty string is falsy
RECURSIVE FilterBoolean(_)
FilterBoolean(xs) ==
    IF xs = <<>> THEN <<>>
    ELSE IF Head(xs) = <<>> THEN FilterBoolean(Tail(xs))
    ELSE <<Head(xs)>> \o FilterBoolean(Tail(xs))

\* SanitizeOptions that tests the trimmed option and keeps the option as submitted
RECURSIVE SanitizeOptionsUntrimmed(_)
SanitizeOptionsUntrimmed(xs) ==
    IF xs = <<>> THEN <<>>
    ELSE LET trimmed == Trim(Head(xs))
         IN  IF Len(trimmed) = 0 \/ Len(trimmed) > MaxOptionLen
             THEN SanitizeOptionsUntrimmed(Tail(xs))
             ELSE <<Head(xs)>> \o SanitizeOptionsUntrimmed(Tail(xs))

\* options.map(option => trimmed or null).filter(Boolean)
RECURSIVE SanitizeOptions(_)
SanitizeOptions(xs) ==
    IF xs = <<>> THEN <<>>
    ELSE LET trimmed == Trim(Head(xs))
         IN  IF Len(trimmed) = 0 \/ Len(trimmed) > MaxOptionLen
             THEN SanitizeOptions(Tail(xs))
             ELSE <<trimmed>> \o SanitizeOptions(Tail(xs))

\* the validation block with the length limit put on the trimmed question
ValidatePollInputTrimmedLimit(question, rawOptions) ==
    LET options == FilterBoolean(rawOptions)
        sanitizedOptions == SanitizeOptions(options)
        uniqueOptions == {sanitizedOptions[i] : i \in 1..Len(sanitizedOptions)}
        fail(msg) == [error |-> msg, question |-> <<>>, options |-> <<>>]
    IN  IF question = <<>> \/ Len(Trim(question)) = 0 THEN fail(InvalidQuestion)
        ELSE IF Len(Trim(question)) > MaxQuestionLen THEN fail(QuestionTooLong)
        ELSE IF Len(options) < MinOptions THEN fail(TooFewOptions)
        ELSE IF Len(options) > MaxOptions THEN fail(TooManyOptions)
        ELSE IF Len(sanitizedOptions) < MinOptions THEN fail(TooFewValidOptions)
        ELSE IF Cardinality(uniqueOptions) # Len(sanitizedOptions) THEN fail(DuplicateOptions)
        ELSE [error |-> Null, question |-> Trim(question), options |-> sanitizedOptions]

\* the validation block shared by createPoll and updatePoll
ValidatePollInput(question, rawOptions) ==
    LET options == FilterBoolean(rawOptions)
        sanitizedOptions == SanitizeOptions(options)
        uniqueOptions == {sanitizedOptions[i] : i \in 1..Len(sanitizedOptions)}
        fail(msg) == [error |-> msg, question |-> <<>>, options |-> <<>>]
    IN  IF question = <<>> \/ Len(Trim(question)) = 0 THEN fail(InvalidQuestion)
        ELSE IF Len(question) > MaxQuestionLen THEN fail(QuestionTooLong)
        ELSE IF Len(options) < MinOptions THEN fail(TooFewOptions)
        ELSE IF Len(options) > MaxOptions THEN fail(TooManyOptions)
        ELSE IF Len(sanitizedOptions) < MinOptions THEN fail(TooFewValidOptions)
        ELSE IF Cardinality(uniqueOptions) # Len(sanitizedOptions) THEN fail(DuplicateOptions)
        ELSE [error |-> Null, question |-> Trim(question), options |-> sanitizedOptions]

\* ----------------------------------------------------------------- identity
AdminWord == <<"a", "d", "m", "i", "n">>

Users == {
    [id |-> "ann", email |-> {<<"a", "d", "m", "i", "n", "@", "x">>}],
    [id |-> "bob", email |-> {<<"b", "o", "b", "@", "x">>}],
    [id |-> "cy",  email |-> {}] }

\* what supabase.auth.getUser() gives a request: { data: { user }, error }
Sessions ==
    {[user |-> {u}, error |-> Null] : u \in Users}
        \cup {[user |-> {}, error |-> Null], [user |-> {}, error |-> AuthErrorMessage]}

\* isAdmin(userId), `auth` being what its own getUser() call gives
isAdmin(auth, userId) ==
    IF auth.user = {} \/ (\A u \in auth.user : u.id # userId) THEN FALSE
    ELSE \E u \in auth.user : \E e \in u.email : Includes(e, AdminWord)

\* -------------------------------------------------------------------- store
\* .single(): the row when the result is exactly one row, else null and an error
Single(rows) == IF Cardinality(rows) = 1 THEN rows ELSE {}

SingleError(rows) == IF Cardinality(rows) = 1 THEN Null ELSE SingleRowMessage

PollsById(id) == {p \in polls : p.id = id}

VoteRows == {[id |-> i, poll_id |-> votes[i].poll_id, user_id |-> votes[i].user_id,
              option_index |-> votes[i].option_index] : i \in 1..Len(votes)}

VotesOf(pollId, userId) == {v \in VoteRows : v.poll_id = pollId /\ v.user_id = userId}

\* .order("created_at", { ascending: false })
RECURSIVE OrderDesc(_)
OrderDesc(rows) ==
    IF rows = {} THEN <<>>
    ELSE LET newest == CHOOSE p \in rows : \A q \in rows : q.created_at <= p.created_at
         IN  <<newest>> \o OrderDesc(rows \ {newest})

Returned(op, error, data) ==
    [op |-> op, error |-> error, polls |-> data, isAdmin |-> FALSE]

Idle == [pc |-> "idle", user |-> "", pollId |-> 0, optionIndex |-> 0, options |-> <<>>]

InFlight == {r \in 1..MaxReq : reqs[r].pc # "idle"}

\* a handleDelete call of the admin page: the poll it was clicked for, the
\* `polls` of the render it was clicked in, and what deletePollAdmin returned
NoCall == [pc |-> "idle", pollId |-> 0, polls |-> <<>>, error |-> Null]

\* the admin page as it mounts: useState initial values, no call made yet.
\* `auth` is the browser's session, `deleted` the ids for which a
\* deletePollAdmin call of the page has returned success.
Mounting ==
    [pc |-> "mount", auth |-> [user |-> {}, error |-> Null],
     polls |-> <<>>, loading |-> TRUE, deleteLoading |-> {}, isAdmin |-> FALSE,
     error |-> Null, calls |-> [r \in 1..MaxReq |-> NoCall], deleted |-> {}]

\* -------------------------------------------------------------------- inputs
\* formData: the "question" field and the "options" fields of a submitted form
FormInputs == {
    [question |-> <<" ">>,           options |-> <<<<"a">>, <<"b">>>>],
    [question |-> <<" ", "Q", " ">>, options |-> <<<<"a">>, <<>>, <<"b">>>>],
    [question |-> <<"R">>,           options |-> <<<<" ", "a">>, <<"b", " ">>, <<"c">>>>],
    [question |-> <<"R">>,           options |-> <<<<"a">>, <<"a", " ">>>>] }

\* forms at the limits of the validation: questions of 500 and 501 characters
\* with and without surrounding blanks, option lists of 1, 2, 10 and 11 entries
\* with and without empty or blank entries, options of 200 and 201 characters
Rep(c, n) == [i \in 1..n |-> c]

Letters == <<"a", "b", "c", "d", "e", "f", "g", "h", "i", "j", "k">>

Entries(n) == [i \in 1..n |-> <<Letters[i]>>]

BoundaryQuestions == {
    <<>>,
    <<" ">>,
    <<"Q">>,
    <<" ", "Q", " ">>,
    Rep("x", MaxQuestionLen),
    Rep("x", MaxQuestionLen + 1),
    <<" ">> \o Rep("x", MaxQuestionLen - 1) \o <<" ">> }

BoundaryOptions == {
    <<>>,
    Entries(1),
    Entries(MinOptions),
    <<<<"a">>, <<>>>>,
    <<<<"a">>, <<" ">>>>,
    <<<<" ", "a">>, <<"b", " ">>>>,
    <<<<"a">>, <<"a", " ">>>>,
    <<<<"a">>, Rep("y", MaxOptionLen)>>,
    <<<<"a">>, Rep("y", MaxOptionLen + 1)>>,
    Entries(MaxOptions),
    Entries(MaxOptions + 1),
    <<<<>>>> \o Entries(MaxOptions) }

BoundaryForms ==
    {[question |-> <<"Q">>, options |-> o] : o \in BoundaryOptions}
        \cup {[question |-> q, options |-> Entries(MinOptions)] : q \in BoundaryQuestions}
        \cup {[question |-> q, options |-> Entries(1)] :
                 q \in {qq \in BoundaryQuestions : Len(qq) > MaxQuestionLen}}

PollIds == 1..MaxPolls

OptionIndexes == {-1, 0, 2}

Init ==
    /\ polls = {}
    /\ nextPollId = 1
    /\ votes = <<>>
    /\ uniqueVotes \in BOOLEAN
    /\ reqs = [r \in 1..MaxReq |-> Idle]
    /\ ret = Returned("none", Null, <<>>)
    /\ page = Mounting

\* ---------------------------------------------------------------- createPoll
createPoll(auth, formData) ==
    \E v \in {ValidatePollInput(formData.question, formData.options)} :
        /\ UNCHANGED <<votes, uniqueVotes, reqs>>
        /\ IF v.error # Null
           THEN /\ ret' = Returned("createPoll", v.error, <<>>)
                /\ UNCHANGED <<polls, nextPollId>>
           ELSE IF auth.error # Null
           THEN /\ ret' = Returned("createPoll", auth.error, <<>>)
                /\ UNCHANGED <<polls, nextPollId>>
           ELSE IF auth.user = {}
           THEN /\ ret' = Returned("createPoll", LoginToCreate, <<>>)
                /\ UNCHANGED <<polls, nextPollId>>
           ELSE /\ nextPollId <= MaxPolls
                /\ \E user \in auth.user :
                      polls' = polls \cup {[id |-> nextPollId, user_id |-> user.id,
                                            question |-> v.question, options |-> v.options,
                                            created_at |-> nextPollId]}
                /\ nextPollId' = nextPollId + 1
                /\ ret' = Returned("createPoll", Null, <<>>)

\* -------------------------------------------------------------- read actions
checkAdminAccess(auth) ==
    /\ UNCHANGED <<polls, nextPollId, votes, uniqueVotes, reqs>>
    /\ IF auth.error # Null \/ auth.user = {}
       THEN ret' = [Returned("checkAdminAccess", NotAuthenticated, <<>>)
                       EXCEPT !.isAdmin = FALSE]
       ELSE \E user \in auth.user :
               ret' = [Returned("checkAdminAccess", Null, <<>>)
                          EXCEPT !.isAdmin = isAdmin(auth, user.id)]

\* getAllPollsAdmin as it was before the audit: any signed-in caller lists all polls
getAllPollsAdminUnchecked(auth) ==
    /\ UNCHANGED <<polls, nextPollId, votes, uniqueVotes, reqs>>
    /\ IF auth.error # Null \/ auth.user = {}
       THEN ret' = Returned("getAllPollsAdmin", NotAuthenticated, <<>>)
       ELSE ret' = Returned("getAllPollsAdmin", Null, OrderDesc(polls))

getAllPollsAdmin(auth) ==
    /\ UNCHANGED <<polls, nextPollId, votes, uniqueVotes, reqs>>
    /\ IF auth.error # Null \/ auth.user = {}
       THEN ret' = Returned("getAllPollsAdmin", NotAuthenticated, <<>>)
       ELSE \E user \in auth.user :
               IF ~isAdmin(auth, user.id)
               THEN ret' = Returned("getAllPollsAdmin", AdminRequired, <<>>)
               ELSE ret' = Returned("getAllPollsAdmin", Null, OrderDesc(polls))

getUserPolls(auth) ==
    /\ UNCHANGED <<polls, nextPollId, votes, uniqueVotes, reqs>>
    /\ IF auth.user = {}
       THEN ret' = Returned("getUserPolls", NotAuthenticated, <<>>)
       ELSE \E user \in auth.user :
               ret' = Returned("getUserPolls", Null,
                               OrderDesc({p \in polls : p.user_id = user.id}))

getPollById(id) ==
    /\ UNCHANGED <<polls, nextPollId, votes, uniqueVotes, reqs>>
    /\ IF SingleError(PollsById(id)) # Null
       THEN ret' = Returned("getPollById", SingleError(PollsById(id)), <<>>)
       ELSE ret' = Returned("getPollById", Null, OrderDesc(Single(PollsById(id))))

\* ------------------------------------------------------------- poll mutations
\* deletePollAdmin that removes the poll's votes along with the poll
deletePollAdminWithVotes(auth, id) ==
    /\ UNCHANGED <<nextPollId, uniqueVotes, reqs>>
    /\ IF auth.error # Null \/ auth.user = {}
       THEN /\ ret' = Returned("deletePollAdmin", NotAuthenticated, <<>>)
            /\ UNCHANGED <<polls, votes>>
       ELSE \E user \in auth.user :
               IF ~isAdmin(auth, user.id)
               THEN /\ ret' = Returned("deletePollAdmin", AdminRequired, <<>>)
                    /\ UNCHANGED <<polls, votes>>
               ELSE /\ polls' = {p \in polls : ~(p.id = id)}
                    /\ votes' = SelectSeq(votes, LAMBDA v : v.poll_id # id)
                    /\ ret' = Returned("deletePollAdmin", Null, <<>>)

\* deletePollAdmin with the owner filter of deletePoll left in
deletePollAdminOwnOnly(auth, id) ==
    /\ UNCHANGED <<nextPollId, votes, uniqueVotes, reqs>>
    /\ IF auth.error # Null \/ auth.user = {}
       THEN /\ ret' = Returned("deletePollAdmin", NotAuthenticated, <<>>)
            /\ UNCHANGED polls
       ELSE \E user \in auth.user :
               IF ~isAdmin(auth, user.id)
               THEN /\ ret' = Returned("deletePollAdmin", AdminRequired, <<>>)
                    /\ UNCHANGED polls
               ELSE /\ polls' = {p \in polls : ~(p.id = id /\ p.user_id = user.id)}
                    /\ ret' = Returned("deletePollAdmin", Null, <<>>)

deletePollAdmin(auth, id) ==
    /\ UNCHANGED <<nextPollId, votes, uniqueVotes, reqs>>
    /\ IF auth.error # Null \/ auth.user = {}
       THEN /\ ret' = Returned("deletePollAdmin", NotAuthenticated, <<>>)
            /\ UNCHANGED polls
       ELSE \E user \in auth.user :
               IF ~isAdmin(auth, user.id)
               THEN /\ ret' = Returned("deletePollAdmin", AdminRequired, <<>>)
                    /\ UNCHANGED polls
               ELSE /\ polls' = {p \in polls : ~(p.id = id)}
                    /\ ret' = Returned("deletePollAdmin", Null, <<>>)

\* deletePoll as it was before the audit: no owner filter on the delete
deletePollAnyOwner(auth, id) ==
    /\ UNCHANGED <<nextPollId, votes, uniqueVotes, reqs>>
    /\ IF auth.error # Null
       THEN /\ ret' = Returned("deletePoll", auth.error, <<>>)
            /\ UNCHANGED polls
       ELSE IF auth.user = {}
       THEN /\ ret' = Returned("deletePoll", LoginToDelete, <<>>)
            /\ UNCHANGED polls
       ELSE /\ polls' = {p \in polls : ~(p.id = id)}
            /\ ret' = Returned("deletePoll", Null, <<>>)

deletePoll(auth, id) ==
    /\ UNCHANGED <<nextPollId, votes, uniqueVotes, reqs>>
    /\ IF auth.error # Null
       THEN /\ ret' = Returned("deletePoll", auth.error, <<>>)
            /\ UNCHANGED polls
       ELSE IF auth.user = {}
       THEN /\ ret' = Returned("deletePoll", LoginToDelete, <<>>)
            /\ UNCHANGED polls
       ELSE \E user \in auth.user :
               /\ polls' = {p \in polls : ~(p.id = id /\ p.user_id = user.id)}
               /\ ret' = Returned("deletePoll", Null, <<>>)

\* updatePoll as it was before the audit: no owner filter on the update
updatePollAnyOwner(auth, pollId, formData) ==
    \E v \in {ValidatePollInput(formData.question, formData.options)} :
        /\ UNCHANGED <<nextPollId, votes, uniqueVotes, reqs>>
        /\ IF v.error # Null
           THEN /\ ret' = Returned("updatePoll", v.error, <<>>)
                /\ UNCHANGED polls
           ELSE IF auth.error # Null
           THEN /\ ret' = Returned("updatePoll", auth.error, <<>>)
                /\ UNCHANGED polls
           ELSE IF auth.user = {}
           THEN /\ ret' = Returned("updatePoll", LoginToUpdate, <<>>)
                /\ UNCHANGED polls
           ELSE /\ polls' = {IF p.id = pollId
                             THEN [p EXCEPT !.question = v.question,
                                            !.options = v.options]
                             ELSE p : p \in polls}
                /\ ret' = Returned("updatePoll", Null, <<>>)

updatePoll(auth, pollId, formData) ==
    \E v \in {ValidatePollInput(formData.question, formData.options)} :
        /\ UNCHANGED <<nextPollId, votes, uniqueVotes, reqs>>
        /\ IF v.error # Null
           THEN /\ ret' = Returned("updatePoll", v.error, <<>>)
                /\ UNCHANGED polls
           ELSE IF auth.error # Null
           THEN /\ ret' = Returned("updatePoll", auth.error, <<>>)
                /\ UNCHANGED polls
           ELSE IF auth.user = {}
           THEN /\ ret' = Returned("updatePoll", LoginToUpdate, <<>>)
                /\ UNCHANGED polls
           ELSE \E user \in auth.user :
                   /\ polls' = {IF p.id = pollId /\ p.user_id = user.id
                                THEN [p EXCEPT !.question = v.question,
                                               !.options = v.options]
                                ELSE p : p \in polls}
                   /\ ret' = Returned("updatePoll", Null, <<>>)

\* ---------------------------------------------------------------- submitVote
\* submitVote up to its first store query: getUser(), which reads only the
\* request's own session, then select id from votes where poll_id, user_id
\* .single(), whose row is existingVote
submitVoteCall(r, auth, pollId, optionIndex) ==
    /\ reqs[r].pc = "idle"
    /\ Len(votes) + Cardinality(InFlight) < MaxVotes
    /\ UNCHANGED <<polls, nextPollId, votes, uniqueVotes>>
    /\ IF auth.user = {}
       THEN /\ ret' = Returned("submitVote", LoginToVote, <<>>)
            /\ UNCHANGED reqs
       ELSE \E user \in auth.user :
               LET existingVote == Single(VotesOf(pollId, user.id))
               IN  IF existingVote # {}
                   THEN /\ ret' = Returned("submitVote", AlreadyVoted, <<>>)
                        /\ UNCHANGED reqs
                   ELSE /\ reqs' = [reqs EXCEPT ![r] = [Idle EXCEPT !.pc = "fetch",
                                       !.user = user.id, !.pollId = pollId,
                                       !.optionIndex = optionIndex]]
                        /\ UNCHANGED ret

\* submitVoteFetch with the upper bound off by one (> for >=)
submitVoteFetchOffByOne(r) ==
    LET poll == Single(PollsById(reqs[r].pollId))
        pollError == SingleError(PollsById(reqs[r].pollId))
    IN  /\ reqs[r].pc = "fetch"
        /\ UNCHANGED <<polls, nextPollId, votes, uniqueVotes>>
        /\ IF pollError # Null \/ poll = {}
           THEN /\ ret' = Returned("submitVote", PollNotFound, <<>>)
                /\ reqs' = [reqs EXCEPT ![r] = Idle]
           ELSE \E p \in poll :
                   IF reqs[r].optionIndex < 0 \/ reqs[r].optionIndex > Len(p.options)
                   THEN /\ ret' = Returned("submitVote", InvalidOption, <<>>)
                        /\ reqs' = [reqs EXCEPT ![r] = Idle]
                   ELSE /\ reqs' = [reqs EXCEPT ![r].pc = "insert",
                                                ![r].options = p.options]
                        /\ UNCHANGED ret

\* select options from polls where id .single(); then the bounds check
submitVoteFetch(r) ==
    LET poll == Single(PollsById(reqs[r].pollId))
        pollError == SingleError(PollsById(reqs[r].pollId))
    IN  /\ reqs[r].pc = "fetch"
        /\ UNCHANGED <<polls, nextPollId, votes, uniqueVotes>>
        /\ IF pollError # Null \/ poll = {}
           THEN /\ ret' = Returned("submitVote", PollNotFound, <<>>)
                /\ reqs' = [reqs EXCEPT ![r] = Idle]
           ELSE \E p \in poll :
                   IF reqs[r].optionIndex < 0 \/ reqs[r].optionIndex >= Len(p.options)
                   THEN /\ ret' = Returned("submitVote", InvalidOption, <<>>)
                        /\ reqs' = [reqs EXCEPT ![r] = Idle]
                   ELSE /\ reqs' = [reqs EXCEPT ![r].pc = "insert",
                                                ![r].options = p.options]
                        /\ UNCHANGED ret

\* insert into votes; the store refuses a second (poll_id, user_id) row when
\* the table carries the unique constraint
submitVoteInsert(r) ==
    /\ reqs[r].pc = "insert"
    /\ UNCHANGED <<polls, nextPollId, uniqueVotes>>
    /\ reqs' = [reqs EXCEPT ![r] = Idle]
    /\ IF uniqueVotes /\ VotesOf(reqs[r].pollId, reqs[r].user) # {}
       THEN /\ ret' = Returned("submitVote", DuplicateKeyMessage, <<>>)
            /\ UNCHANGED votes
       ELSE /\ votes' = Append(votes, [poll_id |-> reqs[r].pollId,
                                       user_id |-> reqs[r].user,
                                       option_index |-> reqs[r].optionIndex])
            /\ ret' = Returned("submitVote", Null, <<>>)

\* ---------------------------------------------------------------- admin page
\* useEffect on mount: checkAccess(), up to its call of fetchAllPolls()
checkAccess(auth) ==
    /\ page.pc = "mount"
    /\ checkAdminAccess(auth)
    /\ page' = IF ret'.error # Null
               THEN [page EXCEPT !.pc = "shown", !.auth = auth,
                                 !.error = ret'.error, !.loading = FALSE]
               ELSE IF ~ret'.isAdmin
               THEN [page EXCEPT !.pc = "shown", !.auth = auth,
                                 !.error = AccessDenied, !.loading = FALSE]
               ELSE [page EXCEPT !.pc = "fetch", !.auth = auth, !.isAdmin = TRUE]

fetchAllPolls ==
    /\ page.pc = "fetch"
    /\ getAllPollsAdmin(page.auth)
    /\ page' = IF ret'.error # Null
               THEN [page EXCEPT !.pc = "shown", !.error = ret'.error, !.loading = FALSE]
               ELSE [page EXCEPT !.pc = "shown", !.polls = ret'.polls,
                                 !.error = Null, !.loading = FALSE]

\* a click on the Delete button of a listed poll: handleDelete(pollId) up to
\* its await.  The button is rendered with the list and is disabled only while
\* deleteLoading is this poll's id; `polls` is that of the render clicked in.
handleDelete(r, pollId) ==
    /\ ~page.loading
    /\ ~(page.error # Null /\ ~page.isAdmin)
    /\ \E i \in 1..Len(page.polls) : page.polls[i].id = pollId
    /\ page.deleteLoading # {pollId}
    /\ page.calls[r].pc = "idle"
    /\ page' = [page EXCEPT !.deleteLoading = {pollId},
                            !.calls[r] = [pc |-> "sent", pollId |-> pollId,
                                          polls |-> page.polls, error |-> Null]]
    /\ UNCHANGED <<polls, nextPollId, votes, uniqueVotes, reqs, ret>>

\* the server runs the deletePollAdmin call of a handleDelete
handleDeleteCall(r) ==
    /\ page.calls[r].pc = "sent"
    /\ deletePollAdmin(page.auth, page.calls[r].pollId)
    /\ page' = [page EXCEPT !.calls[r].pc = "returned", !.calls[r].error = ret'.error]

\* handleDelete after its await
handleDeleteReturn(r) ==
    LET call == page.calls[r]
    IN  /\ call.pc = "returned"
        /\ page' = IF call.error # Null
                   THEN [page EXCEPT !.error = call.error, !.deleteLoading = {},
                                     !.calls[r] = NoCall]
                   ELSE [page EXCEPT
                            !.polls = SelectSeq(call.polls, LAMBDA poll : poll.id # call.pollId),
                            !.error = Null, !.deleteLoading = {},
                            !.calls[r] = NoCall,
                            !.deleted = page.deleted \cup {call.pollId}]
        /\ UNCHANGED <<polls, nextPollId, votes, uniqueVotes, reqs, ret>>

\* --------------------------------------------------------------- behaviours
Slots == 1..MaxReq

PollActions ==
    \/ \E auth \in Sessions, formData \in FormInputs :
          createPoll(auth, formData) /\ UNCHANGED page
    \/ \E auth \in Sessions, id \in PollIds, formData \in FormInputs :
          updatePoll(auth, id, formData) /\ UNCHANGED page
    \/ \E auth \in Sessions, id \in PollIds : deletePoll(auth, id) /\ UNCHANGED page
    \/ \E auth \in Sessions, id \in PollIds : deletePollAdmin(auth, id) /\ UNCHANGED page

ReadActions ==
    \/ \E auth \in Sessions : checkAdminAccess(auth) /\ UNCHANGED page
    \/ \E auth \in Sessions : getAllPollsAdmin(auth) /\ UNCHANGED page
    \/ \E auth \in Sessions : getUserPolls(auth) /\ UNCHANGED page
    \/ \E id \in PollIds : getPollById(id) /\ UNCHANGED page

VoteActions ==
    \/ \E r \in Slots, auth \in Sessions, id \in PollIds, i \in OptionIndexes :
          submitVoteCall(r, auth, id, i) /\ UNCHANGED page
    \/ \E r \in Slots : submitVoteFetch(r) /\ UNCHANGED page
    \/ \E r \in Slots : submitVoteInsert(r) /\ UNCHANGED page

PageActions ==
    \/ \E auth \in Sessions : checkAccess(auth)
    \/ fetchAllPolls
    \/ \E r \in Slots, id \in PollIds : handleDelete(r, id)
    \/ \E r \in Slots : handleDeleteCall(r)
    \/ \E r \in Slots : handleDeleteReturn(r)

Next == PollActions \/ ReadActions \/ VoteActions \/ PageActions

Spec == Init /\ [][Next]_vars

\* the poll operations alone: none of them reads or writes table "votes"
NextPolls == PollActions \/ ReadActions

SpecPolls == Init /\ [][NextPolls]_vars

\* submitVote against a poll that comes, changes and goes.  submitVote(p, i) by
\* user u reads and writes only poll p and the votes of (p, u), so one poll and
\* one voter are followed, next to the owner (an admin) who creates, edits and
\* removes that poll.  Several calls of the voter are in flight at once.
Session(id) == CHOOSE s \in Sessions : \E u \in s.user : u.id = id

Anonymous == [user |-> {}, error |-> Null]

Voters == {Session("bob"), Anonymous}

Owners == {Session("ann")}

Followed == {id \in PollIds : \A other \in PollIds : id <= other}

NextVotes ==
    \/ \E r \in Slots, auth \in Voters, id \in Followed, i \in OptionIndexes :
          submitVoteCall(r, auth, id, i) /\ UNCHANGED page
    \/ \E r \in Slots : submitVoteFetch(r) /\ UNCHANGED page
    \/ \E r \in Slots : submitVoteInsert(r) /\ UNCHANGED page
    \/ \E auth \in Owners, formData \in FormInputs :
          nextPollId \in Followed /\ createPoll(auth, formData) /\ UNCHANGED page
    \/ \E auth \in Owners, id \in Followed, formData \in FormInputs :
          updatePoll(auth, id, formData) /\ UNCHANGED page
    \/ \E auth \in Owners, id \in Followed : deletePoll(auth, id) /\ UNCHANGED page
    \/ \E auth \in Owners, id \in Followed : deletePollAdmin(auth, id) /\ UNCHANGED page

SpecVotes == Init /\ [][NextVotes]_vars

\* createPoll and updatePoll alone, called with the forms at the limits of the
\* validation; the validation does not read the caller, so one signed-in user
\* makes the calls
NextForms ==
    \/ \E auth \in Owners, formData \in BoundaryForms :
          createPoll(auth, formData) /\ UNCHANGED page
    \/ \E auth \in Owners, id \in PollIds, formData \in BoundaryForms :
          updatePoll(auth, id, formData) /\ UNCHANGED page

SpecForms == Init /\ [][NextForms]_vars

\* the admin page open in the browser of an admin or of another user, while
\* a user creates the polls it lists
Visitors == {Session("ann"), Session("bob")}

NextAdmin ==
    \/ \E auth \in Voters, formData \in FormInputs :
          createPoll(auth, formData) /\ UNCHANGED page
    \/ \E auth \in Visitors : checkAccess(auth)
    \/ fetchAllPolls
    \/ \E r \in Slots, id \in PollIds : handleDelete(r, id)
    \/ \E r \in Slots : handleDeleteCall(r)
    \/ \E r \in Slots : handleDeleteReturn(r)

SpecAdmin == Init /\ [][NextAdmin]_vars

\* ------------------------------------------------------------------- claims
SignedIn(auth) == auth.error = Null /\ auth.user # {}

Owns(auth, p) == \E u \in auth.user : u.id = p.user_id

IsAdminCaller(auth) == SignedIn(auth) /\ \E u \in auth.user : isAdmin(auth, u.id)

ValidForm(formData) == ValidatePollInput(formData.question, formData.options).error = Null

StoreUnchanged == UNCHANGED <<polls, nextPollId, votes>>

\* C1: in every reachable state there is at most one vote row per
\* (poll_id, user_id) pair, by the service's own check alone (the votes table
\* may carry no unique constraint), whatever the interleaving of submitVote calls.
C1_OneVotePerPollAndUser ==
    \A v \in VoteRows, w \in VoteRows :
        (v.poll_id = w.poll_id /\ v.user_id = w.user_id) => v.id = w.id

\* C2: when the caller already has a vote stored for the poll and no other
\* request is in flight, submitVote returns AlreadyVoted, whatever the option
\* index, and the votes are unchanged.
C2_SecondVoteIsAlreadyVoted ==
    [][\A r \in Slots, auth \in Sessions, id \in PollIds, i \in OptionIndexes :
          (/\ InFlight = {}
           /\ \E u \in auth.user : VotesOf(id, u.id) # {}
           /\ submitVoteCall(r, auth, id, i))
          => (/\ ret' = Returned("submitVote", AlreadyVoted, <<>>)
              /\ InFlight' = {}
              /\ votes' = votes)]_vars

\* C3: updatePoll and deletePoll called by a user leave every poll that user
\* does not own in the store, with its question, options and user_id unchanged.
C3_NonOwnerLeavesPoll ==
    [][\A auth \in Sessions :
          (\E p \in polls : ~Owns(auth, p) /\ p \notin polls')
          => \A id \in PollIds :
                /\ (ret'.op = "deletePoll") => ~deletePoll(auth, id)
                /\ (ret'.op = "updatePoll") =>
                      \A formData \in FormInputs : ~updatePoll(auth, id, formData)]_vars

\* A deletePoll call returned without an error while every poll ever created is
\* still stored: the poll it named exists and is not the caller's.
C3_Witness ==
    /\ ret.op = "deletePoll"
    /\ ret.error = Null
    /\ nextPollId > MaxPolls
    /\ Cardinality(polls) = MaxPolls

\* C4: updatePoll (with valid input) and deletePoll called by a signed-in user
\* on an existing poll of another user return an error, never a success result.
C4_NonOwnerIsRefused ==
    [][(ret'.op \in {"updatePoll", "deletePoll"}) =>
          \A auth \in Sessions, id \in PollIds :
              (SignedIn(auth) /\ \E p \in polls : p.id = id /\ ~Owns(auth, p))
              => /\ deletePoll(auth, id) => ret'.error # Null
                 /\ \A formData \in FormInputs :
                       (ValidForm(formData) /\ updatePoll(auth, id, formData))
                       => ret'.error # Null]_vars

\* C5: deletePollAdmin removes a poll and getAllPollsAdmin returns polls only
\* for a signed-in caller for whom isAdmin holds; for every other caller both
\* return an error, getAllPollsAdmin returns the empty list, and the store is
\* unchanged.
C5_AdminOperationsNeedAdmin ==
    [][\A auth \in Sessions :
          /\ (ret'.op = "deletePollAdmin") =>
                \A id \in PollIds : deletePollAdmin(auth, id) =>
                    /\ ~IsAdminCaller(auth) => (ret'.error # Null /\ StoreUnchanged)
                    /\ polls' # polls => IsAdminCaller(auth)
          /\ (ret'.op = "getAllPollsAdmin") =>
                (getAllPollsAdmin(auth) =>
                    /\ StoreUnchanged
                    /\ ~IsAdminCaller(auth) => (ret'.error # Null /\ ret'.polls = <<>>)
                    /\ ret'.polls # <<>> => IsAdminCaller(auth)
                    /\ IsAdminCaller(auth) =>
                          {ret'.polls[i] : i \in 1..Len(ret'.polls)} = polls)]_vars

\* getAllPollsAdmin refused a signed-in caller while there were polls to list.
C5_Witness ==
    /\ ret.op = "getAllPollsAdmin"
    /\ ret.error = AdminRequired
    /\ ret.polls = <<>>
    /\ polls # {}

C7_OptionIndexInBounds ==
    [][\A r \in Slots :
          /\ submitVoteFetch(r) =>
                \A p \in PollsById(reqs[r].pollId) :
                    IF reqs[r].optionIndex < 0 \/ reqs[r].optionIndex >= Len(p.options)
                    THEN /\ ret' = Returned("submitVote", InvalidOption, <<>>)
                         /\ reqs'[r].pc = "idle"
                         /\ votes' = votes
                    ELSE reqs'[r].pc = "insert" /\ reqs'[r].options = p.options
          /\ (submitVoteInsert(r) /\ votes' # votes) =>
                /\ Len(votes') = Len(votes) + 1
                /\ votes'[Len(votes')].option_index = reqs[r].optionIndex
                /\ 0 <= reqs[r].optionIndex
                /\ reqs[r].optionIndex < Len(reqs[r].options)]_vars

\* A call was refused for its option index, and another call's vote is stored.
C7_Witness ==
    /\ ret.op = "submitVote"
    /\ ret.error = InvalidOption
    /\ votes # <<>>

\* C8: when the store refuses the vote insert because a vote of the same
\* (poll_id, user_id) exists, submitVote returns the AlreadyVoted error.
C8_RefusedInsertIsAlreadyVoted ==
    [][\A r \in Slots :
          (/\ submitVoteInsert(r)
           /\ uniqueVotes
           /\ VotesOf(reqs[r].pollId, reqs[r].user) # {})
          => ret'.error = AlreadyVoted]_vars

\* C9: updatePoll (with valid input) and deletePoll called by a signed-in user
\* on a poll id that is not in the store, so that the filtered write affects no
\* row, return an error, never a success result.
C9_NoRowAffectedIsRefused ==
    [][(ret'.op \in {"updatePoll", "deletePoll"}) =>
          \A auth \in Sessions, id \in PollIds :
              (SignedIn(auth) /\ PollsById(id) = {})
              => /\ deletePoll(auth, id) => ret'.error # Null
                 /\ \A formData \in FormInputs :
                       (ValidForm(formData) /\ updatePoll(auth, id, formData))
                       => ret'.error # Null]_vars

\* C10: createPoll called with no identity returns the Unauthenticated error
\* for every form, also one that validation rejects, and inserts no poll.
C10_AnonymousCreateIsUnauthenticated ==
    [][(ret'.op = "createPoll") =>
          \A formData \in FormInputs :
              createPoll(Anonymous, formData)
              => (ret'.error = LoginToCreate /\ polls' = polls)]_vars

\* C11: every stored poll has a question equal to its own trim, of 1..500
\* characters, and 2..10 options, each equal to its own trim, of 1..200
\* characters, no two of them equal.
C11_StoredPollsAreSanitized ==
    \A p \in polls :
        /\ p.question = Trim(p.question)
        /\ Len(p.question) \in 1..MaxQuestionLen
        /\ Len(p.options) \in MinOptions..MaxOptions
        /\ \A i \in 1..Len(p.options) :
              /\ p.options[i] = Trim(p.options[i])
              /\ Len(p.options[i]) \in 1..MaxOptionLen
              /\ \A j \in 1..Len(p.options) : p.options[i] = p.options[j] => i = j

\* An updatePoll call succeeded, and the store holds a poll with a question of
\* 500 characters, one with 10 options and one whose options were submitted
\* with surrounding blanks.
C11_Witness ==
    /\ ret.op = "updatePoll"
    /\ ret.error = Null
    /\ \E p \in polls : Len(p.question) = MaxQuestionLen
    /\ \E p \in polls : Len(p.options) = MaxOptions \/ p.options = Entries(MinOptions)

\* the step is a createPoll or updatePoll call that submitted formData
Submitted(formData) ==
    \E auth \in Owners :
        \/ ret'.op = "createPoll" /\ createPoll(auth, formData)
        \/ ret'.op = "updatePoll" /\ \E id \in PollIds : updatePoll(auth, id, formData)

\* the number of characters from the first to the last one that is not whitespace
TrimmedLen(str) ==
    LET kept == {i \in 1..Len(str) : ~IsSpace(str[i])}
    IN  IF kept = {} THEN 0
        ELSE (CHOOSE last \in kept : \A k \in kept : k <= last)
                 - (CHOOSE first \in kept : \A k \in kept : first <= k) + 1

\* the forms whose question is non-empty after trimming
Asked == {f \in BoundaryForms : TrimmedLen(f.question) > 0}

LongWhenTrimmed == {f \in Asked : TrimmedLen(f.question) > MaxQuestionLen}

LongAsSubmitted == {f \in Asked : Len(f.question) > MaxQuestionLen}

ShortWhenTrimmed == Asked \ LongWhenTrimmed

ShortAsSubmitted == Asked \ LongAsSubmitted

LongEitherWay == LongAsSubmitted \cup LongWhenTrimmed

\* C12: for a question that is non-empty after trimming, createPoll and
\* updatePoll return QuestionTooLong if and only if the trimmed question is
\* longer than 500 characters, whatever the options.
C12_LimitOnTrimmedQuestion ==
    [][(ret'.op \in {"createPoll", "updatePoll"}) =>
          IF ret'.error = QuestionTooLong
          THEN \A formData \in ShortWhenTrimmed : ~Submitted(formData)
          ELSE \A formData \in LongWhenTrimmed : ~Submitted(formData)]_vars

\* C12 as amended: for a question that is non-empty after trimming, createPoll
\* and updatePoll return QuestionTooLong if and only if the question as
\* submitted, surrounding whitespace included, is longer than 500 characters,
\* whatever the options; so every question whose trim is longer than 500
\* characters is refused as too long.
C12_LimitOnSubmittedQuestion ==
    [][(ret'.op \in {"createPoll", "updatePoll"}) =>
          IF ret'.error = QuestionTooLong
          THEN \A formData \in ShortAsSubmitted : ~Submitted(formData)
          ELSE \A formData \in LongEitherWay : ~Submitted(formData)]_vars

\* An updatePoll call on a stored poll was refused for the length of its question.
C12_Witness ==
    /\ ret.op = "updatePoll"
    /\ ret.error = QuestionTooLong
    /\ polls # {}

\* the forms whose question passes the question rules, under either reading of
\* the length limit
WellAsked == Asked \ LongEitherWay

OptionErrors == {TooFewOptions, TooManyOptions, TooFewValidOptions}

NoOptionError == "none of the option count errors"

\* the option rules in order, for a list counted as n entries of which k survive
OptionVerdict(n, k) ==
    IF n < MinOptions THEN TooFewOptions
    ELSE IF n > MaxOptions THEN TooManyOptions
    ELSE IF k < MinOptions THEN TooFewValidOptions
    ELSE NoOptionError

\* the entries that are neither empty nor longer than 200 characters after trimming
Survivors(options) ==
    Cardinality({i \in 1..Len(options) : TrimmedLen(options[i]) \in 1..MaxOptionLen})

\* the entries that are not the empty string
Filled(options) == Cardinality({i \in 1..Len(options) : options[i] # <<>>})

\* each form with the verdict of the rules on its list, counted as submitted
VerdictOnSubmitted ==
    {[formData |-> f,
      verdict |-> OptionVerdict(Len(f.options), Survivors(f.options))] : f \in WellAsked}

\* each form with the verdict of the rules on its list, its non-empty entries counted
VerdictOnFilled ==
    {[formData |-> f,
      verdict |-> OptionVerdict(Filled(f.options), Survivors(f.options))] : f \in WellAsked}

Agrees(verdict, error) ==
    IF verdict = NoOptionError THEN error \notin OptionErrors ELSE error = verdict

\* C13: for a valid question, createPoll and updatePoll return TooFewOptions
\* iff the option list as submitted has fewer than 2 entries, TooManyOptions
\* iff it has more than 10, and TooFewValidOptions iff it has 2..10 entries of
\* which fewer than 2 are neither empty nor longer than 200 characters after
\* trimming.
C13_OptionRulesOnSubmittedList ==
    [][(ret'.op \in {"createPoll", "updatePoll"}) =>
          \A case \in VerdictOnSubmitted :
              \/ Agrees(case.verdict, ret'.error)
              \/ ~Submitted(case.formData)]_vars

\* C13 as amended: the same rules, the entries counted being those of the
\* submitted list that are not the empty string: TooFewOptions iff fewer than
\* 2 entries are non-empty, TooManyOptions iff more than 10 are, and
\* TooFewValidOptions iff 2..10 are non-empty and fewer than 2 entries are
\* neither blank nor longer than 200 characters after trimming.
C13_OptionRulesOnFilledList ==
    [][(ret'.op \in {"createPoll", "updatePoll"}) =>
          \A case \in VerdictOnFilled :
              \/ Agrees(case.verdict, ret'.error)
              \/ ~Submitted(case.formData)]_vars

\* An updatePoll call was refused for its options with too few of them valid,
\* while a poll of 10 options is stored.
C13_Witness ==
    /\ ret.op = "updatePoll"
    /\ ret.error = TooFewValidOptions
    /\ \E p \in polls : Len(p.options) = MaxOptions

\* C14: a stored vote is never modified or removed: at every step the votes
\* stored before it are still stored after it, in their places, each with its
\* poll_id, user_id and option_index, whatever operation the step is.
C14_VotesOnlyGrow ==
    [][/\ Len(votes') >= Len(votes)
       /\ \A i \in 1..Len(votes) : votes'[i] = votes[i]]_vars

\* The poll was removed by its owner or by an admin while a vote for it is stored.
C14_Witness ==
    /\ ret.op \in {"deletePoll", "deletePollAdmin"}
    /\ ret.error = Null
    /\ polls = {}
    /\ votes # <<>>

\* C15: an updatePoll call leaves every poll in the store with its id, user_id
\* and created_at; a poll's question or options change only in a step that is
\* an updatePoll call on that poll by the user whose id is the poll's user_id,
\* and then too its id, user_id and created_at stay.
C15_UpdateReplacesQuestionAndOptionsOnly ==
    [][/\ (ret'.op = "updatePoll") =>
             \A p \in polls : \E q \in polls' :
                 q.id = p.id /\ q.user_id = p.user_id /\ q.created_at = p.created_at
       /\ \A p \in polls \ polls' :
             \A q \in {row \in polls' : row.id = p.id} :
                 /\ q.user_id = p.user_id
                 /\ q.created_at = p.created_at
                 /\ ret'.op = "updatePoll"
                 /\ \A auth \in Sessions, id \in PollIds, formData \in FormInputs :
                       updatePoll(auth, id, formData) => (id = p.id /\ Owns(auth, p))]_vars

\* An updatePoll call succeeded while every poll ever created is stored and
\* the polls are of different owners: a poll that is not the caller's is in
\* the store.
C15_Witness ==
    /\ ret.op = "updatePoll"
    /\ ret.error = Null
    /\ nextPollId > MaxPolls
    /\ Cardinality(polls) = MaxPolls
    /\ \E p \in polls, q \in polls : p.user_id # q.user_id

\* C17: every vote that submitVote inserts references a poll that is in the
\* store at the moment of the insert; no vote row is created for a poll that
\* deletePoll or deletePollAdmin removed after the call had fetched it.
C17_InsertedVoteReferencesStoredPoll ==
    [][\A r \in Slots :
          (submitVoteInsert(r) /\ votes' # votes) => PollsById(reqs[r].pollId) # {}]_vars

\* C16: on the admin page, once every handleDelete call has returned, the
\* displayed list holds no poll for which a deletePollAdmin call of the page
\* returned success, also when a Delete click on another poll came while an
\* earlier call was in flight.
C16_DisplayedListHasNoDeletedPoll ==
    (\A r \in Slots : page.calls[r].pc = "idle")
    => \A i \in 1..Len(page.polls) : page.polls[i].id \notin page.deleted
====
